---- MODULE Spec2Model ----
(***************************************************************************)
(* PostgresqlCompare: SchemaComparator (src/main.py).                      *)
(*                                                                         *)
(* Two fetch threads read the catalog of one database each and publish     *)
(* events on their own queue; compare_schemas polls the two queues,        *)
(* forwards progress to the caller's queue, and once both snapshots are    *)
(* there computes the difference report; its finally clause closes both    *)
(* connections.                                                            *)
(*                                                                         *)
(* Names (tables, columns, indexes, constraints) are represented by their  *)
(* rank in lexicographic order, so that ORDER BY and sorted() are the      *)
(* order of the naturals. Attribute values are opaque and only compared    *)
(* for equality.                                                           *)
(***************************************************************************)
EXTENDS Integers, Sequences, FiniteSets, TLC

VARIABLES
    catalog,      \* what each database answers to the four catalog queries
    labels,       \* <<db1_label, db2_label>>
    queue,        \* the caller's queue argument (None, or the events put on it)
    db_conn,      \* db1_conn, db2_conn: "open" or "closed"
    db_queue,     \* db1_queue, db2_queue
    db_result,    \* db1_result, db2_result
    th,           \* the two fetch threads: position and locals of get_tables_structure
    pc,           \* position of compare_schemas
    differences,  \* the report under construction
    cmp_i,        \* enumerate() index over sorted(common_tables)
    exc,          \* the exception compare_schemas is propagating, if any
    retval,       \* the value compare_schemas is returning, if any
    failOrder,    \* history: <<side, cause>> of the fetch failures, in the order they occurred
    gui           \* the window's progress_var, db1_progress_var, db2_progress_var
                  \* and the lines of its result_text

vars == <<catalog, labels, queue, db_conn, db_queue, db_result, th, pc,
          differences, cmp_i, exc, retval, failOrder, gui>>

(***************************************************************************)
(* Bounds of the model.                                                    *)
(***************************************************************************)
MaxTables == 2
MaxCols == 2
MaxIdx == 2
MaxFk == 2

Sides == {1, 2}
Other(s) == IF s = 1 THEN 2 ELSE 1
TableNames == 1..MaxTables
ColNames == 1..MaxCols
IdxNames == 1..MaxIdx
FkNames == 1..MaxFk

(***************************************************************************)
(* Python values.                                                          *)
(***************************************************************************)
None == [isNone |-> TRUE]
Some(v) == [isNone |-> FALSE, val |-> v]
IsNone(x) == x.isNone

Range(s) == {s[i] : i \in 1..Len(s)}

\* sorted(S) for a set of names
RECURSIVE sorted(_)
sorted(S) ==
    IF S = {} THEN <<>>
    ELSE LET m == CHOOSE x \in S : \A y \in S : x <= y
         IN <<m>> \o sorted(S \ {m})

\* variant: a LIFO sink, the event goes to the front
PutIfQueueFront(q, ev) == IF IsNone(q) THEN q ELSE Some(<<ev>> \o q.val)

\* q.put(ev) guarded by "if queue:" (a Queue object is always truthy, None is not)
PutIfQueue(q, ev) == IF IsNone(q) THEN q ELSE Some(Append(q.val, ev))

\* {row[0]: row for row in rows}: the keys in insertion order, the last row wins
RECURSIVE DictKeys(_)
DictKeys(rows) ==
    IF rows = <<>> THEN <<>>
    ELSE LET init == DictKeys(SubSeq(rows, 1, Len(rows) - 1))
             k == rows[Len(rows)][1]
         IN IF k \in Range(init) THEN init ELSE Append(init, k)

DictGet(rows, k) ==
    rows[CHOOSE i \in 1..Len(rows) :
            rows[i][1] = k /\ \A j \in (i + 1)..Len(rows) : rows[j][1] # k]

\* [x for x in keys if x not in other]
RECURSIVE NotIn(_, _)
NotIn(keys, other) ==
    IF keys = <<>> THEN <<>>
    ELSE LET rest == NotIn(Tail(keys), other)
         IN IF Head(keys) \in Range(other) THEN rest ELSE <<Head(keys)>> \o rest

\* dict(zip(['name', 'nullable', ...], col))
ColumnInfoDict(col) ==
    [name |-> col[1], nullable |-> col[2], type |-> col[3], max_length |-> col[4],
     numeric_precision |-> col[5], numeric_scale |-> col[6],
     datetime_precision |-> col[7], udt_name |-> col[8], position |-> col[9]]

(***************************************************************************)
(* compare_table_structure: the differences dict of two table structures   *)
(* (None when it is empty).                                                *)
(***************************************************************************)
\* variant: the ordinal position is left out of the comparison
ColumnDiffsNoPosition(table1, table2) ==
    LET c1 == table1.columns
        c2 == table2.columns
        both == Range(DictKeys(c1)) \cap Range(DictKeys(c2))
        changed == {n \in both :
                      SubSeq(DictGet(c1, n), 1, 8) # SubSeq(DictGet(c2, n), 1, 8)}
    IN [n \in changed |-> [db1 |-> ColumnInfoDict(DictGet(c1, n)),
                           db2 |-> ColumnInfoDict(DictGet(c2, n))]]

\* lines 160-174: column_diffs
ColumnDiffs(table1, table2) ==
    LET c1 == table1.columns
        c2 == table2.columns
        both == Range(DictKeys(c1)) \cap Range(DictKeys(c2))
        changed == {n \in both : DictGet(c1, n) # DictGet(c2, n)}
    IN [n \in changed |-> [db1 |-> ColumnInfoDict(DictGet(c1, n)),
                           db2 |-> ColumnInfoDict(DictGet(c2, n))]]

\* lines 152-157, 177-181
ColumnsPart(table1, table2) ==
    [missing_in_db1 |-> NotIn(DictKeys(table2.columns), DictKeys(table1.columns)),
     missing_in_db2 |-> NotIn(DictKeys(table1.columns), DictKeys(table2.columns)),
     differences |-> ColumnDiffs(table1, table2)]

\* variant: the key columns compared as sets
PrimaryKeysDifferAsSets(table1, table2) ==
    Range(table1.primary_keys) # Range(table2.primary_keys)

\* line 184
PrimaryKeysDiffer(table1, table2) ==
    table1.primary_keys # table2.primary_keys

PrimaryKeysPart(table1, table2) ==
    [db1 |-> table1.primary_keys, db2 |-> table2.primary_keys]

\* variant: whole index rows compared, not their names
RowsNotIn(rows, other) ==
    DictKeys(SelectSeq(rows, LAMBDA r : r \notin Range(other)))

IndexesPartByRow(table1, table2) ==
    [missing_in_db1 |-> RowsNotIn(table2.indexes, table1.indexes),
     missing_in_db2 |-> RowsNotIn(table1.indexes, table2.indexes)]

\* lines 191-201
IndexesPart(table1, table2) ==
    [missing_in_db1 |-> NotIn(DictKeys(table2.indexes), DictKeys(table1.indexes)),
     missing_in_db2 |-> NotIn(DictKeys(table1.indexes), DictKeys(table2.indexes))]

\* variant: whole foreign-key rows compared, not their names
ForeignKeysPartByRow(table1, table2) ==
    [missing_in_db1 |-> RowsNotIn(table2.foreign_keys, table1.foreign_keys),
     missing_in_db2 |-> RowsNotIn(table1.foreign_keys, table2.foreign_keys)]

\* lines 204-214
ForeignKeysPart(table1, table2) ==
    [missing_in_db1 |-> NotIn(DictKeys(table2.foreign_keys), DictKeys(table1.foreign_keys)),
     missing_in_db2 |-> NotIn(DictKeys(table1.foreign_keys), DictKeys(table2.foreign_keys))]

\* variant: the foreign keys are left out of the result
DiffKeysNoForeignKeys(table1, table2) ==
    LET cols == ColumnsPart(table1, table2)
        idx == IndexesPart(table1, table2)
    IN (IF \/ cols.missing_in_db1 # <<>>
           \/ cols.missing_in_db2 # <<>>
           \/ DOMAIN cols.differences # {}
        THEN {"columns"} ELSE {})
       \cup (IF PrimaryKeysDiffer(table1, table2) THEN {"primary_keys"} ELSE {})
       \cup (IF idx.missing_in_db1 # <<>> \/ idx.missing_in_db2 # <<>>
             THEN {"indexes"} ELSE {})

\* variant: the columns part is stored whether or not it is empty
DiffKeysAlwaysColumns(table1, table2) ==
    LET idx == IndexesPart(table1, table2)
        fks == ForeignKeysPart(table1, table2)
    IN {"columns"}
       \cup (IF PrimaryKeysDiffer(table1, table2) THEN {"primary_keys"} ELSE {})
       \cup (IF idx.missing_in_db1 # <<>> \/ idx.missing_in_db2 # <<>>
             THEN {"indexes"} ELSE {})
       \cup (IF fks.missing_in_db1 # <<>> \/ fks.missing_in_db2 # <<>>
             THEN {"foreign_keys"} ELSE {})

\* lines 176, 184, 197, 210: the keys the differences dict gets
DiffKeys(table1, table2) ==
    LET cols == ColumnsPart(table1, table2)
        idx == IndexesPart(table1, table2)
        fks == ForeignKeysPart(table1, table2)
    IN (IF \/ cols.missing_in_db1 # <<>>
           \/ cols.missing_in_db2 # <<>>
           \/ DOMAIN cols.differences # {}
        THEN {"columns"} ELSE {})
       \cup (IF PrimaryKeysDiffer(table1, table2) THEN {"primary_keys"} ELSE {})
       \cup (IF idx.missing_in_db1 # <<>> \/ idx.missing_in_db2 # <<>>
             THEN {"indexes"} ELSE {})
       \cup (IF fks.missing_in_db1 # <<>> \/ fks.missing_in_db2 # <<>>
             THEN {"foreign_keys"} ELSE {})

\* lines 147-216; line 216: "return differences if differences else None"
compare_table_structure(table1, table2) ==
    LET keys == DiffKeys(table1, table2)
        diffs == [k \in keys |->
                    CASE k = "columns" -> ColumnsPart(table1, table2)
                      [] k = "primary_keys" -> PrimaryKeysPart(table1, table2)
                      [] k = "indexes" -> IndexesPart(table1, table2)
                      [] OTHER -> ForeignKeysPart(table1, table2)]
    IN IF keys = {} THEN None ELSE Some(diffs)

\* the truth value of a dict or None ("if table_diff:")
Truthy(x) == ~IsNone(x) /\ DOMAIN x.val # {}

(***************************************************************************)
(* Inputs: table structures as a fetch builds them. A column is the tuple  *)
(* row[1:] of a column row: name, is_nullable, data_type,                  *)
(* character_maximum_length, numeric_precision, numeric_scale,             *)
(* datetime_precision, udt_name, ordinal_position. Column lists are        *)
(* ordered by column name and index and foreign-key lists by name, as the  *)
(* queries order them; a table has at least one column.                    *)
(***************************************************************************)
BaseCol(n) == <<n, "YES", "integer", "NULL", "32", "0", "NULL", "int4", n>>
AltCol(n) == <<n, "NO", "varchar", "255", "64", "2", "6", "varchar", n + MaxCols>>

\* the columns named n that differ from BaseCol(n) in one attribute
ColVariants(n) == {[BaseCol(n) EXCEPT ![i] = AltCol(n)[i]] : i \in 2..9}

\* column lists over a set of names in which at most one column is a variant
ColumnListsOver(S) ==
    LET names == sorted(S)
        plain == [i \in 1..Len(names) |-> BaseCol(names[i])]
    IN {plain} \cup
       UNION {{[plain EXCEPT ![i] = v] : v \in ColVariants(names[i])} :
                 i \in 1..Len(names)}

ColumnLists == UNION {ColumnListsOver(S) : S \in (SUBSET ColNames) \ {{}}}

PlainColumns == [i \in 1..MaxCols |-> BaseCol(i)]

\* primary keys: the sequences of distinct column names
PkLists ==
    {p \in UNION {[1..k -> ColNames] : k \in 0..MaxCols} :
        \A i, j \in 1..Len(p) : i # j => p[i] # p[j]}

\* concatenation of the lists opt[n], n ascending
RECURSIVE Concat(_, _)
Concat(names, opt) ==
    IF names = <<>> THEN <<>> ELSE opt[Head(names)] \o Concat(Tail(names), opt)

\* index rows (index_name, column_name, is_unique) of one index: absent,
\* one column, unique or not, or a composite index
IdxOptions(n) ==
    { <<>>,
      << <<n, 1, FALSE>> >>,
      << <<n, 1, TRUE>> >>,
      << <<n, 1, FALSE>>, <<n, MaxCols, FALSE>> >> }

IdxLists ==
    {Concat(sorted(IdxNames), opt) :
        opt \in {o \in [IdxNames -> UNION {IdxOptions(n) : n \in IdxNames}] :
                    \A n \in IdxNames : o[n] \in IdxOptions(n)}}

\* foreign-key rows (constraint_name, column_name, foreign_table, foreign_column)
FkOptions(n) ==
    { <<>>,
      << <<n, 1, 1, 1>> >>,
      << <<n, MaxCols, 1, 1>> >>,
      << <<n, 1, MaxTables, 1>> >> }

FkLists ==
    {Concat(sorted(FkNames), opt) :
        opt \in {o \in [FkNames -> UNION {FkOptions(n) : n \in FkNames}] :
                    \A n \in FkNames : o[n] \in FkOptions(n)}}

Table(c, p, i, f) == [columns |-> c, primary_keys |-> p, indexes |-> i, foreign_keys |-> f]

PlainTable == Table(PlainColumns, <<1>>, <<>>, <<>>)
ChangedTable == Table(PlainColumns, <<MaxCols>>, <<>>, <<>>)

\* pairs of structures of one table: one facet ranges over all its lists while
\* the others are fixed, and a family where every facet takes two values
ColumnPairs ==
    {<<Table(c1, <<>>, <<>>, <<>>), Table(c2, <<>>, <<>>, <<>>)>> :
        c1 \in ColumnLists, c2 \in ColumnLists}

PkPairs ==
    {<<Table(PlainColumns, p1, <<>>, <<>>), Table(PlainColumns, p2, <<>>, <<>>)>> :
        p1 \in PkLists, p2 \in PkLists}

IdxPairs ==
    {<<Table(PlainColumns, <<1>>, i1, <<>>), Table(PlainColumns, <<1>>, i2, <<>>)>> :
        i1 \in IdxLists, i2 \in IdxLists}

FkPairs ==
    {<<Table(PlainColumns, <<1>>, <<>>, f1), Table(PlainColumns, <<1>>, <<>>, f2)>> :
        f1 \in FkLists, f2 \in FkLists}

MixedTables ==
    {Table(c, p, i, f) :
        c \in {PlainColumns, [PlainColumns EXCEPT ![1] = AltCol(1)]},
        p \in {<<1>>, <<>>},
        i \in {<<>>, << <<1, 1, TRUE>> >>},
        f \in {<<>>, << <<1, 1, 1, 1>> >>}}

TablePairs ==
    ColumnPairs \cup PkPairs \cup IdxPairs \cup FkPairs
    \cup (MixedTables \X MixedTables)

\* snapshots: a dict from table name to structure
Snapshots ==
    UNION {[S -> {PlainTable, ChangedTable}] : S \in SUBSET TableNames}

SnapshotPairs ==
    {<<[t \in {1} |-> tp[1]], [t \in {1} |-> tp[2]]>> : tp \in TablePairs}
    \cup (Snapshots \X Snapshots)

(***************************************************************************)
(* Catalogs: the rows the four queries of get_tables_structure return.     *)
(* Every row starts with its table name.                                   *)
(***************************************************************************)
RowsOf(snap, field) ==
    LET names == sorted(DOMAIN snap)
        rows == [t \in DOMAIN snap |->
                    [i \in 1..Len(snap[t][field]) |->
                        IF field = "primary_keys"
                        THEN <<t, snap[t][field][i]>>
                        ELSE <<t>> \o snap[t][field][i]]]
    IN Concat(names, rows)

CatalogOf(snap) ==
    [columns |-> RowsOf(snap, "columns"),
     primary_keys |-> RowsOf(snap, "primary_keys"),
     indexes |-> RowsOf(snap, "indexes"),
     foreign_keys |-> RowsOf(snap, "foreign_keys")]

\* a catalog changed between the column query and the later ones: the later
\* queries also return rows of a table the column query did not see
WithLateTable(snap) ==
    LET c == CatalogOf(snap)
        late == MaxTables + 1
    IN [c EXCEPT !.primary_keys = Append(@, <<late, 1>>),
                 !.indexes = Append(@, <<late, 1, 1, TRUE>>),
                 !.foreign_keys = Append(@, <<late, 1, 1, 1, 1>>)]

IndexedTable == Table(PlainColumns, <<1>>, << <<1, 1, TRUE>> >>, << <<1, 1, 1, 1>> >>)
NarrowTable == Table(<<BaseCol(1)>>, <<1>>, <<>>, <<>>)

\* the databases of the concurrent runs: no table, one table, or two tables
\* and a late one
FetchCatalogs ==
    {CatalogOf(<<>>),
     CatalogOf([t \in {1} |-> IndexedTable]),
     WithLateTable([t \in {1, MaxTables} |-> IF t = 1 THEN PlainTable ELSE NarrowTable])}

\* <<db1_label, db2_label>>
\* a label is the sequence of its characters
LabelPairs == {<< <<"A">>, <<"B">> >>}
Causes == {"timeout", "denied"}
ConnectionClosed == "connection already closed"

(***************************************************************************)
(* get_tables_structure, run by thread s on db_conn[s] with db_queue[s].   *)
(***************************************************************************)
\* queue: whether the call was given a queue (the thread functions pass theirs)
NewThread ==
    [pc |-> "idle", row_i |-> 0, current_table |-> 0, table_count |-> 0,
     tables_structure |-> <<>>, e |-> "", queue |-> TRUE]

db_label(s) == labels[s]

columns(s) == catalog[s].columns

\* variant: len(columns), the rows counted and not the tables
total_tablesOfRows(s) == Len(columns(s))

\* len(set(col[0] for col in columns))
total_tables(s) == Cardinality({columns(s)[i][1] : i \in 1..Len(columns(s))})

\* variant: Queue(maxsize=1), put() waits while the queue is full
PutBounded(s, ev) ==
    /\ Len(db_queue[s]) < 1
    /\ db_queue' = [db_queue EXCEPT ![s] = Append(@, ev)]

\* lines 221-222: Queue() has no size limit, put() returns at once
Put(s, ev) == db_queue' = [db_queue EXCEPT ![s] = Append(@, ev)]

\* lines 21-22, 54-55, 144-145: "if queue: queue.put(...)"
PutIfGiven(s, ev) == IF th[s].queue THEN Put(s, ev) ELSE UNCHANGED db_queue

\* a statement on the connection raises: always when the connection is closed,
\* and possibly (the server, the network) when it is open
Raises(s, cause) ==
    IF db_conn[s] = "closed" THEN cause = ConnectionClosed ELSE cause \in Causes

\* the frame's locals are gone with the exception
Fail(s, cause) ==
    /\ th' = [th EXCEPT ![s] = [NewThread EXCEPT !.pc = "except", !.e = cause,
                                                  !.queue = th[s].queue]]
    /\ failOrder' = Append(failOrder, <<s, cause>>)

\* line 19: cursor = conn.cursor()
OpenCursor(s) ==
    /\ th[s].pc = "cursor"
    /\ \/ /\ db_conn[s] = "open"
          /\ th' = [th EXCEPT ![s].pc = "status"]
          /\ UNCHANGED failOrder
       \/ /\ db_conn[s] = "closed"
          /\ Fail(s, ConnectionClosed)
    /\ UNCHANGED <<gui, catalog, labels, queue, db_conn, db_queue, db_result, pc,
                   differences, cmp_i, exc, retval>>

\* lines 21-22
PutStatus(s) ==
    /\ th[s].pc = "status"
    /\ PutIfGiven(s, <<"status", [text |-> "fetching", label |-> db_label(s)]>>)
    /\ th' = [th EXCEPT ![s].pc = "q_columns"]
    /\ UNCHANGED <<gui, catalog, labels, queue, db_conn, db_result, pc,
                   differences, cmp_i, exc, retval, failOrder>>

\* lines 25-48: the column query returns
QueryColumns(s) ==
    /\ th[s].pc = "q_columns"
    /\ db_conn[s] = "open"
    /\ th' = [th EXCEPT ![s].pc = IF columns(s) = <<>> THEN "q_primary_keys" ELSE "rows",
                        ![s].row_i = 1,
                        ![s].current_table = 0,
                        ![s].table_count = 0,
                        ![s].tables_structure = <<>>]
    /\ UNCHANGED <<gui, catalog, labels, queue, db_conn, db_queue, db_result, pc,
                   differences, cmp_i, exc, retval, failOrder>>

\* tables_structure with row appended to the list `field` of its table
AppendTo(ts, table_name, field, item) ==
    [ts EXCEPT ![table_name][field] = Append(@, item)]

EmptyTable == Table(<<>>, <<>>, <<>>, <<>>)

\* lines 49-64: one iteration of the loop over the column rows
ProcessRow(s) ==
    /\ th[s].pc = "rows"
    /\ LET row == columns(s)[th[s].row_i]
           table_name == row[1]
           new == table_name # th[s].current_table
           count == IF new THEN th[s].table_count + 1 ELSE th[s].table_count
           ts == th[s].tables_structure
           ts1 == IF table_name \in DOMAIN ts THEN ts
                  ELSE [t \in DOMAIN ts \cup {table_name} |->
                           IF t = table_name THEN EmptyTable ELSE ts[t]]
       IN /\ IF new
             THEN PutIfGiven(s, <<"progress", [label |-> db_label(s), current |-> count,
                                               total |-> total_tables(s),
                                               table |-> table_name]>>)
             ELSE UNCHANGED db_queue
          /\ th' = [th EXCEPT
                      ![s].current_table = table_name,
                      ![s].table_count = count,
                      ![s].tables_structure = AppendTo(ts1, table_name, "columns", Tail(row)),
                      ![s].row_i = @ + 1,
                      ![s].pc = IF th[s].row_i = Len(columns(s))
                                THEN "q_primary_keys" ELSE "rows"]
    /\ UNCHANGED <<gui, catalog, labels, queue, db_conn, db_result, pc,
                   differences, cmp_i, exc, retval, failOrder>>

\* the item a row of a later query adds: the column name, or the rest of the row
ItemOf(field, row) == IF field = "primary_keys" THEN row[2] ELSE Tail(row)

\* variant: a table the column rows did not name is created for the row
AppendRowOrCreate(ts, field, row) ==
    LET ts1 == IF row[1] \in DOMAIN ts THEN ts
               ELSE [t \in DOMAIN ts \cup {row[1]} |->
                        IF t = row[1] THEN EmptyTable ELSE ts[t]]
    IN AppendTo(ts1, row[1], field, ItemOf(field, row))

\* lines 80-82, 102-111, 129-138: "if table_name in tables_structure: ...append(...)"
AppendRow(ts, field, row) ==
    IF row[1] \in DOMAIN ts THEN AppendTo(ts, row[1], field, ItemOf(field, row)) ELSE ts

\* "for ... in cursor.fetchall(): ..."
RECURSIVE AppendRows(_, _, _)
AppendRows(ts, field, rows) ==
    IF rows = <<>> THEN ts
    ELSE AppendRows(AppendRow(ts, field, Head(rows)), field, Tail(rows))

\* variant: the index query is left out
NextQuerySkipIndexes(field) ==
    CASE field = "primary_keys" -> "q_foreign_keys"
      [] field = "indexes" -> "q_foreign_keys"
      [] OTHER -> "return"

\* lines 67, 85, 114, 140: the statement after each of the three later queries
NextQuery(field) ==
    CASE field = "primary_keys" -> "q_indexes"
      [] field = "indexes" -> "q_foreign_keys"
      [] OTHER -> "return"

\* lines 67-82, 85-111, 114-138: one of the three later queries returns
QueryRest(s, field) ==
    /\ th[s].pc = "q_" \o field
    /\ db_conn[s] = "open"
    /\ th' = [th EXCEPT
                ![s].tables_structure = AppendRows(@, field, catalog[s][field]),
                ![s].pc = NextQuery(field)]
    /\ UNCHANGED <<gui, catalog, labels, queue, db_conn, db_queue, db_result, pc,
                   differences, cmp_i, exc, retval, failOrder>>

QueryPcs == {"q_columns", "q_primary_keys", "q_indexes", "q_foreign_keys"}

\* cursor.execute raises
QueryFails(s) ==
    /\ th[s].pc \in QueryPcs
    /\ \E cause \in Causes \cup {ConnectionClosed} :
          /\ Raises(s, cause)
          /\ Fail(s, cause)
    /\ UNCHANGED <<gui, catalog, labels, queue, db_conn, db_queue, db_result, pc,
                   differences, cmp_i, exc, retval>>

\* variant: the other side's label
ErrorDataOtherLabel(s, cause) == [label |-> db_label(Other(s)), cause |-> cause]

\* line 145: f"{db_label}查询出错: {str(e)}"
ErrorData(s, cause) == [label |-> db_label(s), cause |-> cause]

\* variant: a handler that only raises again
PutErrorNothing(s) ==
    /\ th[s].pc = "except"
    /\ th' = [th EXCEPT ![s].pc = "except_thread"]
    /\ UNCHANGED <<gui, catalog, labels, queue, db_conn, db_queue, db_result, pc,
                   differences, cmp_i, exc, retval, failOrder>>

\* lines 143-146: the handler of get_tables_structure
PutError(s) ==
    /\ th[s].pc = "except"
    /\ PutIfGiven(s, <<"error", ErrorData(s, th[s].e)>>)
    /\ th' = [th EXCEPT ![s].pc = "except_thread"]
    /\ UNCHANGED <<gui, catalog, labels, queue, db_conn, db_result, pc,
                   differences, cmp_i, exc, retval, failOrder>>

\* lines 229-230, 236-237: the handler of the thread function
PutThreadError(s) ==
    /\ th[s].pc = "except_thread"
    /\ Put(s, <<"error", [cause |-> th[s].e]>>)
    /\ th' = [th EXCEPT ![s] = [NewThread EXCEPT !.pc = "done"]]
    /\ UNCHANGED <<gui, catalog, labels, queue, db_conn, db_result, pc,
                   differences, cmp_i, exc, retval, failOrder>>

\* lines 140-141 and 228, 235: the fetch returns and the thread publishes it
PutComplete(s) ==
    /\ th[s].pc = "return"
    /\ Put(s, <<"complete", th[s].tables_structure>>)
    /\ th' = [th EXCEPT ![s] = [NewThread EXCEPT !.pc = "done"]]
    /\ UNCHANGED <<gui, catalog, labels, queue, db_conn, db_result, pc,
                   differences, cmp_i, exc, retval, failOrder>>

(***************************************************************************)
(* compare_schemas.                                                        *)
(***************************************************************************)
\* lines 221-247: the queues, the two threads started, the results unset
StartThreads ==
    /\ pc = "start"
    /\ th' = [s \in Sides |-> [th[s] EXCEPT !.pc = "cursor"]]
    /\ db_queue' = [s \in Sides |-> <<>>]
    /\ db_result' = [s \in Sides |-> None]
    /\ pc' = "poll1"
    /\ UNCHANGED <<gui, catalog, labels, queue, db_conn, differences, cmp_i, exc, retval,
                   failOrder>>

\* variant: the two messages exchanged
ErrorOfOtherSide(s, data) == [side |-> Other(s), data |-> data]

\* Exception(f"数据库1错误: {data}"), Exception(f"数据库2错误: {data}")
ErrorOf(s, data) == [side |-> s, data |-> data]

PollPc(s) == IF s = 1 THEN "poll1" ELSE "poll2"
AfterPoll(s) == IF s = 1 THEN "poll2" ELSE "check"

\* variant: an error event is skipped and the loop goes on polling
RaiseErrorNever(s, data) ==
    /\ pc' = AfterPoll(s)
    /\ UNCHANGED exc

\* lines 253-254, 263-264: raise Exception(...), on to the finally clause
RaiseError(s, data) ==
    /\ exc' = Some(ErrorOf(s, data))
    /\ pc' = "close1"

\* lines 251-259 (s = 1) and 261-269 (s = 2): at most one event of db_queue[s]
Poll(s) ==
    /\ pc = PollPc(s)
    /\ IF db_queue[s] = <<>>
       THEN /\ pc' = AfterPoll(s)
            /\ UNCHANGED <<db_queue, queue, db_result, exc>>
       ELSE LET status == Head(db_queue[s])[1]
                data == Head(db_queue[s])[2]
            IN /\ db_queue' = [db_queue EXCEPT ![s] = Tail(@)]
               /\ CASE status = "error" ->
                         /\ RaiseError(s, data)
                         /\ UNCHANGED <<queue, db_result>>
                    [] status \in {"status", "progress"} ->
                         /\ queue' = PutIfQueue(queue, <<status, data>>)
                         /\ pc' = AfterPoll(s)
                         /\ UNCHANGED <<db_result, exc>>
                    [] OTHER ->
                         /\ db_result' = [db_result EXCEPT ![s] = Some(data)]
                         /\ pc' = AfterPoll(s)
                         /\ UNCHANGED <<queue, exc>>
    /\ UNCHANGED <<gui, catalog, labels, db_conn, th, differences, cmp_i, retval, failOrder>>

\* variant: "if db1_result and db2_result", an empty snapshot counts as none
BothResultsTruthy == Truthy(db_result[1]) /\ Truthy(db_result[2])

\* variant: "or" for "and"
EitherResult == ~IsNone(db_result[1]) \/ ~IsNone(db_result[2])

\* line 271: "db1_result is not None and db2_result is not None"
BothResults == ~IsNone(db_result[1]) /\ ~IsNone(db_result[2])

\* lines 271-274: leave the loop, or sleep and poll again
CheckResults ==
    /\ pc = "check"
    /\ pc' = IF BothResults THEN "status" ELSE "poll1"
    /\ UNCHANGED <<gui, catalog, labels, queue, db_conn, db_queue, db_result, th,
                   differences, cmp_i, exc, retval, failOrder>>

\* lines 276-277
PutComparing ==
    /\ pc = "status"
    /\ queue' = PutIfQueue(queue, <<"status", [text |-> "comparing"]>>)
    /\ pc' = "existence"
    /\ UNCHANGED <<gui, catalog, labels, db_conn, db_queue, db_result, th,
                   differences, cmp_i, exc, retval, failOrder>>

db1_table_names == DOMAIN db_result[1].val
db2_table_names == DOMAIN db_result[2].val
common_tables == db1_table_names \cap db2_table_names

\* variant: missing_in_db1 without the subtraction
MissingTablesAllOfDb2(names1, names2) ==
    [missing_in_db1 |-> names2, missing_in_db2 |-> names1 \ names2]

\* variant: missing_in_db2 without the subtraction
MissingTablesAllOfDb1(names1, names2) ==
    [missing_in_db1 |-> names2 \ names1, missing_in_db2 |-> names1]

\* variant: the two differences exchanged
MissingTablesSwapped(names1, names2) ==
    [missing_in_db1 |-> names1 \ names2, missing_in_db2 |-> names2 \ names1]

\* lines 289-290; list(set) has no defined order, the lists are kept as sets
MissingTables(names1, names2) ==
    [missing_in_db1 |-> names2 \ names1, missing_in_db2 |-> names1 \ names2]

\* lines 279-294
TableExistence ==
    /\ pc = "existence"
    /\ differences' =
          Some([missing_in_db1 |-> MissingTables(db1_table_names, db2_table_names).missing_in_db1,
                missing_in_db2 |-> MissingTables(db1_table_names, db2_table_names).missing_in_db2,
                structure_diff |-> <<>>])
    /\ cmp_i' = 1
    /\ pc' = "tables"
    /\ UNCHANGED <<gui, catalog, labels, queue, db_conn, db_queue, db_result, th,
                   exc, retval, failOrder>>

\* variant: enumerate() without its start value, the counter runs from 0
CompareProgressFromZero(i, total, table_name) ==
    <<"progress", [text |-> "comparing", current |-> i - 1, total |-> total,
                   table |-> table_name]>>

\* line 297: ("progress", f"比较进度: {i}/{total_tables} ({table_name})")
CompareProgress(i, total, table_name) ==
    <<"progress", [text |-> "comparing", current |-> i, total |-> total,
                   table |-> table_name]>>

\* lines 295-304: one iteration of the loop over sorted(common_tables)
CompareTable ==
    /\ pc = "tables"
    /\ cmp_i <= Cardinality(common_tables)
    /\ LET table_name == sorted(common_tables)[cmp_i]
           table_diff == compare_table_structure(db_result[1].val[table_name],
                                                 db_result[2].val[table_name])
           sd == differences.val.structure_diff
       IN /\ queue' = PutIfQueue(queue,
                         CompareProgress(cmp_i, Cardinality(common_tables), table_name))
          /\ differences' =
                IF ~Truthy(table_diff) THEN differences
                ELSE Some([differences.val EXCEPT !.structure_diff =
                             [t \in DOMAIN sd \cup {table_name} |->
                                 IF t = table_name THEN table_diff.val ELSE sd[t]]])
    /\ cmp_i' = cmp_i + 1
    /\ UNCHANGED <<gui, catalog, labels, db_conn, db_queue, db_result, th, pc,
                   exc, retval, failOrder>>

\* line 306
ReturnDifferences ==
    /\ pc = "tables"
    /\ cmp_i > Cardinality(common_tables)
    /\ retval' = differences
    /\ pc' = "close1"
    /\ UNCHANGED <<gui, catalog, labels, queue, db_conn, db_queue, db_result, th,
                   differences, cmp_i, exc, failOrder>>

\* variant: the second connection is left open
ClosingFirstOnly(s) == IF s = 1 THEN {1} ELSE {}

\* lines 313-314: the connection the s-th statement of close() closes
Closing(s) == {s}

\* lines 308-314: finally: self.close(), one connection after the other
Close(s) ==
    /\ pc = IF s = 1 THEN "close1" ELSE "close2"
    /\ db_conn' = [c \in Sides |-> IF c \in Closing(s) THEN "closed" ELSE db_conn[c]]
    /\ pc' = IF s = 1 THEN "close2" ELSE "done"
    /\ UNCHANGED <<gui, catalog, labels, queue, db_queue, db_result, th,
                   differences, cmp_i, exc, retval, failOrder>>

(***************************************************************************)
(* The window that calls compare_schemas: its three text variables, and    *)
(* process_queue, which takes the events off the sink. The events are kept *)
(* as the fields of their f-strings; Render gives the string, a sequence   *)
(* of characters, a character outside ASCII written as its code point.     *)
(***************************************************************************)
\* lines 591-593: "正在比较...", "", ""
Window ==
    [progress_var |-> <<"U+6B63", "U+5728", "U+6BD4", "U+8F83", ".", ".", ".">>,
     db1_progress_var |-> <<>>,
     db2_progress_var |-> <<>>,
     result_text |-> <<>>]

\* lines 55, 297: f"{table_count}/{total_tables} ({table_name})"
Counter(data) ==
    <<ToString(data.current), "/", ToString(data.total), " ", "(",
      ToString(data.table), ")">>

\* line 22: f"正在获取{db_label}的表结构..."
RenderFetchStatus(data) ==
    <<"U+6B63", "U+5728", "U+83B7", "U+53D6">> \o data.label
       \o <<"U+7684", "U+8868", "U+7ED3", "U+6784", ".", ".", ".">>

\* line 55: f"{db_label}进度: {table_count}/{total_tables} ({table_name})"
RenderFetchProgress(data) == data.label \o <<"U+8FDB", "U+5EA6", ":", " ">> \o Counter(data)

\* line 277: "正在比较差异..."
RenderComparing == <<"U+6B63", "U+5728", "U+6BD4", "U+8F83", "U+5DEE", "U+5F02", ".", ".", ".">>

\* line 297: f"比较进度: {i}/{total_tables} ({table_name})"
RenderCompareProgress(data) ==
    <<"U+6BD4", "U+8F83", "U+8FDB", "U+5EA6", ":", " ">> \o Counter(data)

\* the data of an event as the string the code puts on the queue
Render(ev) ==
    LET data == ev[2]
    IN CASE ev[1] = "status" /\ data.text = "fetching" -> RenderFetchStatus(data)
         [] ev[1] = "status" /\ data.text = "comparing" -> RenderComparing
         [] ev[1] = "progress" /\ "label" \in DOMAIN data -> RenderFetchProgress(data)
         [] OTHER -> RenderCompareProgress(data)

\* str.startswith
startswith(data, prefix) ==
    /\ Len(prefix) <= Len(data)
    /\ \A i \in 1..Len(prefix) : data[i] = prefix[i]

\* lines 623-626: the display a progress string goes to, 0 for neither
Route(data, db1_label, db2_label) ==
    IF startswith(data, db1_label) THEN 1
    ELSE IF startswith(data, db2_label) THEN 2
    ELSE 0

\* lines 618-628: one iteration of the while loop of process_queue
ProcessQueue ==
    /\ ~IsNone(queue)
    /\ queue.val # <<>>
    /\ LET status == Head(queue.val)[1]
           data == Render(Head(queue.val))
           to == Route(data, labels[1], labels[2])
       IN /\ queue' = Some(Tail(queue.val))
          /\ gui' = CASE status = "status" -> [gui EXCEPT !.progress_var = data]
                      [] status = "progress" /\ to = 1 -> [gui EXCEPT !.db1_progress_var = data]
                      [] status = "progress" /\ to = 2 -> [gui EXCEPT !.db2_progress_var = data]
                      [] OTHER -> gui
    /\ UNCHANGED <<catalog, labels, db_conn, db_queue, db_result, th, pc,
                   differences, cmp_i, exc, retval, failOrder>>

(***************************************************************************)
(* display_results: the lines it inserts into result_text, each line kept  *)
(* as the kind of its text and the values put into it.                     *)
(***************************************************************************)
\* lines 685-688, 691-694, 703-711, 748-768: a heading, a line per name, sorted
ListLines(what, label, names) ==
    IF names = {} THEN <<>>
    ELSE <<[line |-> what, label |-> label]>>
            \o [i \in 1..Cardinality(names) |-> [line |-> "item", name |-> sorted(names)[i]]]

\* lines 723-736: the attributes display_results looks at, in its order
CheckedAttributes ==
    <<"type", "max_length", "numeric_precision", "numeric_scale",
      "datetime_precision", "nullable", "position">>

\* lines 721-736: differences_found
differences_found(db1_info, db2_info) ==
    LET Differs(a) == db1_info[a] # db2_info[a]
        found == SelectSeq(CheckedAttributes, Differs)
    IN [i \in 1..Len(found) |->
           [line |-> "delta", attribute |-> found[i],
            db1 |-> db1_info[found[i]], db2 |-> db2_info[found[i]]]]

\* lines 713-739: the columns of columns.differences, sorted by name
DefinitionLines(diffs) ==
    IF DOMAIN diffs = {} THEN <<>>
    ELSE <<[line |-> "column definitions"]>>
            \o Concat(sorted(DOMAIN diffs),
                      [n \in DOMAIN diffs |->
                          <<[line |-> "column", name |-> n]>>
                             \o differences_found(diffs[n].db1, diffs[n].db2)])

\* lines 699-768: the lines of one table of structure_diff
TableLines(table_name, diff, db1_label, db2_label) ==
    <<[line |-> "table", name |-> table_name]>>
       \o (IF "columns" \in DOMAIN diff
           THEN ListLines("columns missing", db1_label, Range(diff.columns.missing_in_db1))
                   \o ListLines("columns missing", db2_label,
                                Range(diff.columns.missing_in_db2))
                   \o DefinitionLines(diff.columns.differences)
           ELSE <<>>)
       \o (IF "primary_keys" \in DOMAIN diff
           THEN <<[line |-> "primary keys"],
                  [line |-> "key", label |-> db1_label, columns |-> diff.primary_keys.db1],
                  [line |-> "key", label |-> db2_label, columns |-> diff.primary_keys.db2]>>
           ELSE <<>>)
       \o (IF "indexes" \in DOMAIN diff
           THEN ListLines("indexes missing", db1_label, Range(diff.indexes.missing_in_db1))
                   \o ListLines("indexes missing", db2_label,
                                Range(diff.indexes.missing_in_db2))
           ELSE <<>>)
       \o (IF "foreign_keys" \in DOMAIN diff
           THEN ListLines("foreign keys missing", db1_label,
                          Range(diff.foreign_keys.missing_in_db1))
                   \o ListLines("foreign keys missing", db2_label,
                                Range(diff.foreign_keys.missing_in_db2))
           ELSE <<>>)

\* lines 679-770
display_results(report, db1_label, db2_label) ==
    LET sd == report.structure_diff
    IN ListLines("tables missing", db1_label, report.missing_in_db1)
          \o ListLines("tables missing", db2_label, report.missing_in_db2)
          \o (IF DOMAIN sd = {} THEN <<>>
              ELSE <<[line |-> "structure differences"]>>
                      \o Concat(sorted(DOMAIN sd),
                                [t \in DOMAIN sd |->
                                    TableLines(t, sd[t], db1_label, db2_label)]))
          \o (IF report.missing_in_db1 = {} /\ report.missing_in_db2 = {} /\ DOMAIN sd = {}
              THEN <<[line |-> "no differences"]>>
              ELSE <<>>)

\* lines 649-653: the report is taken off result_queue, once, and displayed;
\* progress_var is set to "比较完成"
DisplayResults ==
    /\ pc = "done"
    /\ ~IsNone(retval)
    /\ gui.result_text = <<>>
    /\ gui' = [gui EXCEPT
                  !.result_text = display_results(retval.val, labels[1], labels[2]),
                  !.progress_var = <<"U+6BD4", "U+8F83", "U+5B8C", "U+6210">>]
    /\ UNCHANGED <<catalog, labels, queue, db_conn, db_queue, db_result, th, pc,
                   differences, cmp_i, exc, retval, failOrder>>

(***************************************************************************)
(* The concurrent runs: both connections open, nothing started.            *)
(***************************************************************************)
InitWith(catalogs) ==
    /\ catalog \in [Sides -> catalogs]
    /\ labels \in LabelPairs
    /\ queue \in {None, Some(<<>>)}
    /\ db_conn = [s \in Sides |-> "open"]
    /\ db_queue = [s \in Sides |-> <<>>]
    /\ db_result = [s \in Sides |-> None]
    /\ th = [s \in Sides |-> NewThread]
    /\ pc = "start"
    /\ differences = None
    /\ cmp_i = 0
    /\ exc = None
    /\ retval = None
    /\ failOrder = <<>>
    /\ gui = Window

Init == InitWith(FetchCatalogs)

Fetch(s) ==
    \/ OpenCursor(s)
    \/ PutStatus(s)
    \/ QueryColumns(s)
    \/ ProcessRow(s)
    \/ \E field \in {"primary_keys", "indexes", "foreign_keys"} : QueryRest(s, field)
    \/ QueryFails(s)
    \/ PutError(s)
    \/ PutThreadError(s)
    \/ PutComplete(s)

Compare ==
    \/ StartThreads
    \/ Poll(1)
    \/ Poll(2)
    \/ CheckResults
    \/ PutComparing
    \/ TableExistence
    \/ CompareTable
    \/ ReturnDifferences
    \/ Close(1)
    \/ Close(2)

Next == Compare \/ \E s \in Sides : Fetch(s)

Spec == Init /\ [][Next]_vars

(***************************************************************************)
(* The comparison alone: both fetches have completed and been consumed;    *)
(* the two snapshots range over SnapshotPairs.                             *)
(***************************************************************************)
DiffInit ==
    /\ \E sp \in SnapshotPairs :
          /\ catalog = [s \in Sides |-> CatalogOf(sp[s])]
          /\ db_result = [s \in Sides |-> Some(sp[s])]
    /\ labels \in LabelPairs
    /\ queue = Some(<<>>)
    /\ db_conn = [s \in Sides |-> "open"]
    /\ db_queue = [s \in Sides |-> <<>>]
    /\ th = [s \in Sides |-> [NewThread EXCEPT !.pc = "done"]]
    /\ pc = "status"
    /\ differences = None
    /\ cmp_i = 0
    /\ exc = None
    /\ retval = None
    /\ failOrder = <<>>
    /\ gui = Window

DiffNext ==
    \/ PutComparing
    \/ TableExistence
    \/ CompareTable
    \/ ReturnDifferences
    \/ Close(1)
    \/ Close(2)

DiffSpec == DiffInit /\ [][DiffNext]_vars

(***************************************************************************)
(* The comparison and the display of its report.                           *)
(***************************************************************************)
DisplayNext == DiffNext \/ DisplayResults

DisplaySpec == DiffInit /\ [][DisplayNext]_vars

(***************************************************************************)
(* Fairness: compare_schemas keeps running, and a thread whose fetch has   *)
(* raised runs its handler. A query may never return, so no fetch is       *)
(* assumed to make progress. These runs take the two smallest databases.   *)
(***************************************************************************)
FairCatalogs ==
    {CatalogOf(<<>>), CatalogOf([t \in {1} |-> NarrowTable])}

FairInit == InitWith(FairCatalogs)

FairSpec ==
    /\ FairInit
    /\ [][Next]_vars
    /\ WF_vars(Compare)
    /\ \A s \in Sides : WF_vars(PutError(s))

(***************************************************************************)
(* get_tables_structure alone: one call on each connection, with a queue   *)
(* that nothing reads or with none. A call ends by returning its snapshot  *)
(* (pc = "return") or by raising again from its handler (pc =              *)
(* "except_thread"). Each call keeps running, and each statement on the    *)
(* connection returns or raises.                                           *)
(***************************************************************************)
FetchInit ==
    /\ catalog \in [Sides -> FetchCatalogs]
    /\ labels \in LabelPairs
    /\ queue = None
    /\ db_conn = [s \in Sides |-> "open"]
    /\ db_queue = [s \in Sides |-> <<>>]
    /\ db_result = [s \in Sides |-> None]
    /\ \E given \in [Sides -> BOOLEAN] :
          th = [s \in Sides |-> [NewThread EXCEPT !.pc = "cursor", !.queue = given[s]]]
    /\ pc = "start"
    /\ differences = None
    /\ cmp_i = 0
    /\ exc = None
    /\ retval = None
    /\ failOrder = <<>>
    /\ gui = Window

FetchCall(s) ==
    \/ OpenCursor(s)
    \/ PutStatus(s)
    \/ QueryColumns(s)
    \/ ProcessRow(s)
    \/ \E field \in {"primary_keys", "indexes", "foreign_keys"} : QueryRest(s, field)
    \/ QueryFails(s)
    \/ PutError(s)

FetchNext == \E s \in Sides : FetchCall(s)

FetchSpec ==
    /\ FetchInit
    /\ [][FetchNext]_vars
    /\ \A s \in Sides : WF_vars(FetchCall(s))

(***************************************************************************)
(* The window's runs: compare_schemas is called with a sink and with the   *)
(* labels of the two entry fields, and process_queue runs beside it. Both  *)
(* databases have the one table of NarrowTable.                            *)
(***************************************************************************)
Default1 == <<"U+6570", "U+636E", "U+5E93", "1">>
Default2 == <<"U+6570", "U+636E", "U+5E93", "2">>

\* lines 605-606: entry.get() or "数据库1"
LabelOr(entry, default) == IF entry = <<>> THEN default ELSE entry

\* what the two label fields hold: nothing, two unrelated labels, and labels
\* of which one starts with the other
LabelEntries ==
    {<< <<>>, <<>> >>,
     << <<"A">>, <<"B">> >>,
     << <<"A">>, <<"A", "B">> >>,
     << <<"A", "B">>, <<"A">> >>}

GuiCatalogs == {CatalogOf([t \in {1} |-> NarrowTable])}

GuiInit ==
    /\ catalog \in [Sides -> GuiCatalogs]
    /\ \E entries \in LabelEntries :
          labels = <<LabelOr(entries[1], Default1), LabelOr(entries[2], Default2)>>
    /\ queue = Some(<<>>)
    /\ db_conn = [s \in Sides |-> "open"]
    /\ db_queue = [s \in Sides |-> <<>>]
    /\ db_result = [s \in Sides |-> None]
    /\ th = [s \in Sides |-> NewThread]
    /\ pc = "start"
    /\ differences = None
    /\ cmp_i = 0
    /\ exc = None
    /\ retval = None
    /\ failOrder = <<>>
    /\ gui = Window

GuiNext == Next \/ ProcessQueue

GuiSpec == GuiInit /\ [][GuiNext]_vars

(***************************************************************************)
(* The whole request of the window's thread: SchemaComparator(...) opens   *)
(* the two connections one after the other, then compare_schemas runs with *)
(* the window's queue. A connect that raises leaves __init__ and the       *)
(* thread's try block: the request ends with that error and no comparator. *)
(***************************************************************************)
ConnectError(s, cause) == [side |-> s, data |-> [connect |-> cause]]

\* No statement closes a connection that __init__ had opened before a later
\* connect raised. The object that holds it is unreachable afterwards: the
\* connection is still open when the request ends, or the interpreter has
\* collected the object by then, which closes it.
Abandoned(conn) ==
    {[c \in Sides |-> IF conn[c] = "open" /\ c \in collected THEN "closed" ELSE conn[c]] :
        collected \in SUBSET Sides}

\* lines 13 (s = 1) and 14 (s = 2): psycopg2.connect(...)
Connect(s) ==
    /\ pc = IF s = 1 THEN "connect1" ELSE "connect2"
    /\ \/ /\ db_conn' = [db_conn EXCEPT ![s] = "open"]
          /\ pc' = IF s = 1 THEN "connect2" ELSE "start"
          /\ UNCHANGED exc
       \/ /\ \E cause \in Causes : exc' = Some(ConnectError(s, cause))
          /\ pc' = "done"
          /\ db_conn' \in Abandoned(db_conn)
    /\ UNCHANGED <<gui, catalog, labels, queue, db_queue, db_result, th,
                   differences, cmp_i, retval, failOrder>>

RequestInit ==
    /\ catalog \in [Sides -> FairCatalogs]
    /\ labels \in LabelPairs
    /\ queue = Some(<<>>)
    /\ db_conn = [s \in Sides |-> "none"]
    /\ db_queue = [s \in Sides |-> <<>>]
    /\ db_result = [s \in Sides |-> None]
    /\ th = [s \in Sides |-> NewThread]
    /\ pc = "connect1"
    /\ differences = None
    /\ cmp_i = 0
    /\ exc = None
    /\ retval = None
    /\ failOrder = <<>>
    /\ gui = Window

RequestNext == Connect(1) \/ Connect(2) \/ Next

RequestSpec == RequestInit /\ [][RequestNext]_vars

(***************************************************************************)
(* Vocabulary of the properties.                                           *)
(***************************************************************************)
FailedSides == {failOrder[i][1] : i \in 1..Len(failOrder)}
FetchFailed(s) == s \in FailedSides
FailCause(s) == failOrder[CHOOSE i \in 1..Len(failOrder) : failOrder[i][1] = s][2]
FetchSucceeded(s) == ~FetchFailed(s) /\ th[s].pc \in {"return", "done"}
FetchTerminal(s) == FetchFailed(s) \/ FetchSucceeded(s)
FetchRunning(s) == th[s].pc \in {"cursor", "status", "rows"} \cup QueryPcs

Exited == pc = "done"
Returned == Exited /\ ~IsNone(retval)
Raised == Exited /\ ~IsNone(exc)

\* the tables compare_schemas has compared so far
Compared ==
    IF IsNone(differences) THEN {}
    ELSE {sorted(common_tables)[i] : i \in 1..(cmp_i - 1)}

Left(t) == db_result[1].val[t]
Right(t) == db_result[2].val[t]

\* the part `key` of table t's entry in structure_diff, if it has one
HasPart(t, key) ==
    /\ t \in DOMAIN differences.val.structure_diff
    /\ key \in DOMAIN differences.val.structure_diff[t]
Part(t, key) == differences.val.structure_diff[t][key]

NamesOf(rows) == {rows[i][1] : i \in 1..Len(rows)}
RowNamed(rows, n) == rows[CHOOSE i \in 1..Len(rows) : rows[i][1] = n]

(***************************************************************************)
(* C1: compare_schemas starts comparing, and returns a report, only if     *)
(* both fetches succeeded and published their snapshot; a run in which a   *)
(* fetch failed computes no report and, when it exits, exits with an       *)
(* error.                                                                  *)
(***************************************************************************)
C1_ReportOnlyFromBothFetches ==
    /\ (pc \in {"status", "existence", "tables"} \/ ~IsNone(differences) \/ ~IsNone(retval)) =>
          \A s \in Sides : FetchSucceeded(s) /\ ~IsNone(db_result[s])
    /\ Returned => IsNone(exc) /\ retval = differences
    /\ (\E s \in Sides : FetchFailed(s)) =>
          /\ IsNone(differences) /\ IsNone(retval)
          /\ Exited => Raised

C1_Witness_RaisedAfterOneSideSucceeded ==
    /\ Raised
    /\ \E s \in Sides : FetchSucceeded(s) /\ FetchFailed(Other(s))
    /\ IsNone(retval)

(***************************************************************************)
(* C2: compare_schemas does not exit before both fetch threads have        *)
(* reached a terminal state.                                               *)
(***************************************************************************)
C2_ExitOnlyAfterBothFetchesTerminal ==
    Exited => \A s \in Sides : FetchTerminal(s)

(***************************************************************************)
(* C3: whenever compare_schemas has exited, both connections are closed.   *)
(***************************************************************************)
C3_ConnectionsClosedOnExit ==
    Exited => \A s \in Sides : db_conn[s] = "closed"

C3_Witness_ExitedBothWays ==
    /\ Exited
    /\ Raised \/ Returned
    /\ \A s \in Sides : db_conn[s] = "closed"

C5_ErrorNamesFirstFailure ==
    (~IsNone(exc) /\ Len(failOrder) = 2) => exc.val.side = failOrder[1][1]

(***************************************************************************)
(* C5 (amended): the error names the failed side whose error event the     *)
(* polling loop takes first off its queue: it is raised by the poll of     *)
(* that side's queue, whose head is then that side's error event.          *)
(***************************************************************************)
C5_ErrorNamesFirstPolledFailure ==
    [][(IsNone(exc) /\ ~IsNone(exc')) =>
          LET s == exc'.val.side
          IN /\ FetchFailed(s)
             /\ pc = PollPc(s)
             /\ db_queue[s] # <<>>
             /\ Head(db_queue[s])[1] = "error"]_vars

C5_Witness_SecondFailureNamed ==
    /\ Raised
    /\ Len(failOrder) = 2
    /\ failOrder[1][1] = 2
    /\ exc.val.side = 1

(***************************************************************************)
(* C6: the error names a side whose fetch failed, and carries that side's  *)
(* label and the message of that side's failure.                           *)
(***************************************************************************)
C6_ErrorBlamesFailedSide ==
    ~IsNone(exc) =>
        LET s == exc.val.side
        IN /\ FetchFailed(s)
           /\ exc.val.data.label = labels[s]
           /\ exc.val.data.cause = FailCause(s)

C6_Witness_OtherSideNotFailed ==
    /\ Raised
    /\ ~FetchFailed(Other(exc.val.side))
    /\ exc.val.data.cause \in Causes

(***************************************************************************)
(* C7: missing_in_db1 is the set of the table names of the right snapshot  *)
(* that are not in the left one, missing_in_db2 the set of those of the    *)
(* left snapshot that are not in the right one.                            *)
(***************************************************************************)
C7_MissingTables ==
    \A r \in {differences, retval} :
        ~IsNone(r) =>
            /\ r.val.missing_in_db1 =
                  {t \in DOMAIN db_result[2].val : t \notin DOMAIN db_result[1].val}
            /\ r.val.missing_in_db2 =
                  {t \in DOMAIN db_result[1].val : t \notin DOMAIN db_result[2].val}

C7_Witness_MissingOnBothSides ==
    /\ Returned
    /\ retval.val.missing_in_db1 # {}
    /\ retval.val.missing_in_db2 # {}

\* the column named n of a column list in which names are unique
Col(rows, n) == RowNamed(rows, n)

\* info is the dict of all nine attributes of col
FullInfo(info, col) ==
    /\ DOMAIN info = {"name", "nullable", "type", "max_length", "numeric_precision",
                      "numeric_scale", "datetime_precision", "udt_name", "position"}
    /\ info.name = col[1] /\ info.nullable = col[2] /\ info.type = col[3]
    /\ info.max_length = col[4] /\ info.numeric_precision = col[5]
    /\ info.numeric_scale = col[6] /\ info.datetime_precision = col[7]
    /\ info.udt_name = col[8] /\ info.position = col[9]

(***************************************************************************)
(* C8: for a table on both sides, a column name is in                      *)
(* columns.missing_in_db1 iff only the right table has it, in              *)
(* columns.missing_in_db2 iff only the left table has it, and in           *)
(* columns.differences iff both have it and one of the nine attributes     *)
(* differs; a differences entry carries both sides' nine attributes.       *)
(***************************************************************************)
C8_ColumnComparison ==
    \A t \in Compared :
        LET l == Left(t).columns
            r == Right(t).columns
            has == HasPart(t, "columns")
        IN \A n \in NamesOf(l) \cup NamesOf(r) :
              /\ (has /\ n \in Range(Part(t, "columns").missing_in_db1))
                    <=> (n \in NamesOf(r) /\ n \notin NamesOf(l))
              /\ (has /\ n \in Range(Part(t, "columns").missing_in_db2))
                    <=> (n \in NamesOf(l) /\ n \notin NamesOf(r))
              /\ (has /\ n \in DOMAIN Part(t, "columns").differences)
                    <=> /\ n \in NamesOf(l) \cap NamesOf(r)
                        /\ \E i \in 1..9 : Col(l, n)[i] # Col(r, n)[i]
              /\ (has /\ n \in DOMAIN Part(t, "columns").differences) =>
                    /\ FullInfo(Part(t, "columns").differences[n].db1, Col(l, n))
                    /\ FullInfo(Part(t, "columns").differences[n].db2, Col(r, n))

\* a column that differs in its ordinal position alone, and one missing on the left
C8_Witness_PositionOnlyDifference ==
    /\ Returned
    /\ \E t \in Compared :
          /\ HasPart(t, "columns")
          /\ Part(t, "columns").missing_in_db1 # <<>>
          /\ \E n \in DOMAIN Part(t, "columns").differences :
                /\ \A i \in 1..8 : Col(Left(t).columns, n)[i] = Col(Right(t).columns, n)[i]
                /\ Col(Left(t).columns, n)[9] # Col(Right(t).columns, n)[9]

(***************************************************************************)
(* C9: a table's diff has a primary_keys entry iff the two sequences of    *)
(* primary-key column names differ as sequences (the same columns in       *)
(* another order differ); the entry carries both sequences unchanged.      *)
(***************************************************************************)
C9_PrimaryKeyComparison ==
    \A t \in Compared :
        LET l == Left(t).primary_keys
            r == Right(t).primary_keys
            same == Len(l) = Len(r) /\ \A i \in 1..Len(l) : l[i] = r[i]
        IN /\ HasPart(t, "primary_keys") <=> ~same
           /\ HasPart(t, "primary_keys") =>
                 /\ Part(t, "primary_keys").db1 = l
                 /\ Part(t, "primary_keys").db2 = r

C9_Witness_SameColumnsOtherOrder ==
    /\ Returned
    /\ \E t \in Compared :
          /\ HasPart(t, "primary_keys")
          /\ Len(Left(t).primary_keys) > 1
          /\ Range(Left(t).primary_keys) = Range(Right(t).primary_keys)

(***************************************************************************)
(* C10: an index name of either table is reported missing on a side iff    *)
(* no index row of that side has that name; there is an indexes entry iff  *)
(* the two sets of index names differ, so the same names with other        *)
(* columns or uniqueness flags produce none.                               *)
(***************************************************************************)
C10_IndexComparison ==
    \A t \in Compared :
        LET l == Left(t).indexes
            r == Right(t).indexes
            has == HasPart(t, "indexes")
        IN /\ \A n \in NamesOf(l) \cup NamesOf(r) :
                 /\ (has /\ n \in Range(Part(t, "indexes").missing_in_db1))
                       <=> (\A i \in 1..Len(l) : l[i][1] # n)
                 /\ (has /\ n \in Range(Part(t, "indexes").missing_in_db2))
                       <=> (\A i \in 1..Len(r) : r[i][1] # n)
           /\ has <=> NamesOf(l) # NamesOf(r)

\* an index name on both sides with different rows, and no indexes entry
C10_Witness_SameNameOtherRows ==
    /\ Returned
    /\ \E t \in Compared :
          /\ NamesOf(Left(t).indexes) = NamesOf(Right(t).indexes)
          /\ Left(t).indexes # Right(t).indexes
          /\ ~HasPart(t, "indexes")

(***************************************************************************)
(* C11: a constraint name of either table is reported missing on a side    *)
(* iff no foreign-key row of that side has that name; there is a           *)
(* foreign_keys entry iff the two sets of constraint names differ, so the  *)
(* same name with other columns or another referenced table or column      *)
(* produces none.                                                          *)
(***************************************************************************)
C11_ForeignKeyComparison ==
    \A t \in Compared :
        LET l == Left(t).foreign_keys
            r == Right(t).foreign_keys
            has == HasPart(t, "foreign_keys")
        IN /\ \A n \in NamesOf(l) \cup NamesOf(r) :
                 /\ (has /\ n \in Range(Part(t, "foreign_keys").missing_in_db1))
                       <=> (\A i \in 1..Len(l) : l[i][1] # n)
                 /\ (has /\ n \in Range(Part(t, "foreign_keys").missing_in_db2))
                       <=> (\A i \in 1..Len(r) : r[i][1] # n)
           /\ has <=> NamesOf(l) # NamesOf(r)

\* a constraint name on both sides with different rows, and no foreign_keys entry
C11_Witness_SameConstraintOtherRows ==
    /\ Returned
    /\ \E t \in Compared :
          /\ NamesOf(Left(t).foreign_keys) = NamesOf(Right(t).foreign_keys)
          /\ Left(t).foreign_keys # Right(t).foreign_keys
          /\ ~HasPart(t, "foreign_keys")

\* the four substructure differences of a common table, read off the snapshots
ColumnsDiffer(t) ==
    LET l == Left(t).columns
        r == Right(t).columns
    IN \/ NamesOf(l) # NamesOf(r)
       \/ \E n \in NamesOf(l) \cap NamesOf(r) : Col(l, n) # Col(r, n)
KeysDiffer(t) == Left(t).primary_keys # Right(t).primary_keys
IndexNamesDiffer(t) == NamesOf(Left(t).indexes) # NamesOf(Right(t).indexes)
ConstraintNamesDiffer(t) == NamesOf(Left(t).foreign_keys) # NamesOf(Right(t).foreign_keys)

(***************************************************************************)
(* C12: a compared table is a key of structure_diff iff one of its four    *)
(* substructure diffs is non-empty, its entry holds exactly the non-empty  *)
(* ones, and a table with the same structure on both sides has no entry.   *)
(***************************************************************************)
C12_TableInDiffIffSomePartDiffers ==
    \A t \in Compared :
        LET in == t \in DOMAIN differences.val.structure_diff
        IN /\ in <=> (ColumnsDiffer(t) \/ KeysDiffer(t) \/ IndexNamesDiffer(t)
                        \/ ConstraintNamesDiffer(t))
           /\ HasPart(t, "columns") <=> ColumnsDiffer(t)
           /\ HasPart(t, "primary_keys") <=> KeysDiffer(t)
           /\ HasPart(t, "indexes") <=> IndexNamesDiffer(t)
           /\ HasPart(t, "foreign_keys") <=> ConstraintNamesDiffer(t)
           /\ Left(t) = Right(t) => ~in

\* a table whose only difference is the names of its foreign keys
C12_Witness_OnlyForeignKeysDiffer ==
    /\ Returned
    /\ \E t \in Compared :
          /\ t \in DOMAIN differences.val.structure_diff
          /\ DOMAIN differences.val.structure_diff[t] = {"foreign_keys"}
          /\ NamesOf(Left(t).foreign_keys) # {}
          /\ NamesOf(Right(t).foreign_keys) # {}

(***************************************************************************)
(* C13: every key of structure_diff is a table of both snapshots, and no   *)
(* table is both in structure_diff and in missing_in_db1 or                *)
(* missing_in_db2.                                                         *)
(***************************************************************************)
C13_DiffedTablesAreCommon ==
    ~IsNone(differences) =>
        \A t \in DOMAIN differences.val.structure_diff :
            /\ t \in DOMAIN db_result[1].val
            /\ t \in DOMAIN db_result[2].val
            /\ t \notin differences.val.missing_in_db1
            /\ t \notin differences.val.missing_in_db2

C13_Witness_DiffedAndMissingTables ==
    /\ Returned
    /\ DOMAIN retval.val.structure_diff # {}
    /\ retval.val.missing_in_db1 # {}

EmptyReport == [missing_in_db1 |-> {}, missing_in_db2 |-> {}, structure_diff |-> <<>>]

(***************************************************************************)
(* C14: comparing a snapshot with itself returns the empty report.         *)
(***************************************************************************)
C14_SameSnapshotEmptyReport ==
    (~IsNone(retval) /\ db_result[1].val = db_result[2].val) => retval.val = EmptyReport

C14_Witness_SameSnapshotWithIndexes ==
    /\ Returned
    /\ db_result[1].val = db_result[2].val
    /\ \E t \in DOMAIN db_result[1].val :
          db_result[1].val[t].indexes # <<>> /\ db_result[1].val[t].foreign_keys # <<>>

(***************************************************************************)
(* C15: missing_in_db1 of the comparison of (A, B) is missing_in_db2 of    *)
(* the comparison of (B, A), and missing_in_db2 of (A, B) is               *)
(* missing_in_db1 of (B, A): the report of the run on (A, B) against the   *)
(* table-existence step applied to the table names of (B, A).              *)
(***************************************************************************)
C15_MissingTablesSymmetric ==
    ~IsNone(retval) =>
        LET swapped == MissingTables(DOMAIN db_result[2].val, DOMAIN db_result[1].val)
        IN /\ retval.val.missing_in_db1 = swapped.missing_in_db2
           /\ retval.val.missing_in_db2 = swapped.missing_in_db1

C15_Witness_MissingOnOneSide ==
    /\ Returned
    /\ retval.val.missing_in_db1 # {}
    /\ retval.val.missing_in_db2 = {}
    /\ common_tables # {}

\* the events of the comparison phase, in the order the sink got them
IsCompareEvent(ev) == "text" \in DOMAIN ev[2] /\ ev[2].text = "comparing"
CompareEvents == SelectSeq(queue.val, IsCompareEvent)

(***************************************************************************)
(* C16: once compare_schemas has computed its return value, the sink ends  *)
(* with one 'comparing' status event followed by one progress event per    *)
(* common table, the tables in ascending order, the counter running from   *)
(* 1 to the number N of common tables with total N; no other event of the  *)
(* comparison phase is in the sink, and none is added afterwards.          *)
(***************************************************************************)
C16_ComparisonEvents ==
    (~IsNone(queue) /\ ~IsNone(retval)) =>
        LET N == Cardinality(common_tables)
            ce == CompareEvents
            len == Len(queue.val)
        IN /\ Len(ce) = N + 1
           /\ len >= N + 1
           /\ SubSeq(queue.val, len - N, len) = ce
           /\ ce[1][1] = "status"
           /\ \A i \in 1..N :
                 /\ ce[i + 1][1] = "progress"
                 /\ ce[i + 1][2].current = i
                 /\ ce[i + 1][2].total = N
                 /\ ce[i + 1][2].table \in common_tables
                 /\ i < N => ce[i + 1][2].table < ce[i + 2][2].table

\* two common tables compared after both fetches were forwarded to the sink
C16_Witness_TwoTablesCompared ==
    /\ Returned
    /\ ~IsNone(queue)
    /\ Cardinality(common_tables) = 2
    /\ Len(queue.val) > 3

\* the status and progress events get_tables_structure emits for side s, in
\* the order of its statements: the status, then one progress event per
\* change of table name along the column rows (lines 21-22, 49-55)
RECURSIVE ProgressFrom(_, _, _, _)
ProgressFrom(s, i, current_table, table_count) ==
    IF i > Len(columns(s)) THEN <<>>
    ELSE LET table_name == columns(s)[i][1]
         IN IF table_name # current_table
            THEN <<(<<"progress", [label |-> db_label(s), current |-> table_count + 1,
                                   total |-> total_tables(s), table |-> table_name]>>)>>
                   \o ProgressFrom(s, i + 1, table_name, table_count + 1)
            ELSE ProgressFrom(s, i + 1, current_table, table_count)
EmittedBy(s) ==
    <<(<<"status", [text |-> "fetching", label |-> db_label(s)]>>)>> \o ProgressFrom(s, 1, 0, 0)

\* the events of side s: in the sink (told by their label), and still in its queue
HasLabel(ev, l) == "label" \in DOMAIN ev[2] /\ ev[2].label = l
Forwarded(s) ==
    LET OfSide(ev) == HasLabel(ev, labels[s])
    IN SelectSeq(queue.val, OfSide)
ToForward(s) ==
    LET Forwardable(ev) == ev[1] \in {"status", "progress"}
    IN SelectSeq(db_queue[s], Forwardable)
IsPrefix(a, b) == Len(a) <= Len(b) /\ SubSeq(b, 1, Len(a)) = a

(***************************************************************************)
(* C17: for each side, the status and progress events in the sink,         *)
(* followed by those still waiting in that side's queue, are an initial    *)
(* part of what the side's fetch emits, in that order: forwarding keeps    *)
(* the order of emission and repeats no event, however the two sides'      *)
(* events interleave.                                                      *)
(***************************************************************************)
C17_ForwardedInEmissionOrder ==
    ~IsNone(queue) =>
        \A s \in Sides : IsPrefix(Forwarded(s) \o ToForward(s), EmittedBy(s))

\* both sides have two events in the sink, one side's event between the other's
C17_Witness_InterleavedSides ==
    /\ ~IsNone(queue)
    /\ \A s \in Sides : Len(Forwarded(s)) >= 2
    /\ \E i, j, k \in 1..Len(queue.val) :
          /\ i < j /\ j < k
          /\ HasLabel(queue.val[i], labels[2])
          /\ HasLabel(queue.val[j], labels[1])
          /\ HasLabel(queue.val[k], labels[2])

\* the strings of the progress events the fetch of side s emits
ProgressStrings(s) ==
    LET ps == ProgressFrom(s, 1, 0, 0)
    IN {Render(ps[i]) : i \in 1..Len(ps)}

(***************************************************************************)
(* C18: whatever the two labels, the left display shows nothing or a       *)
(* progress string of the left fetch, and the right display nothing or a   *)
(* progress string of the right fetch: no progress event of one side       *)
(* updates the display of the other.                                       *)
(***************************************************************************)
C18_ProgressOnOwnDisplay ==
    /\ gui.db1_progress_var \in {<<>>} \cup ProgressStrings(1)
    /\ gui.db2_progress_var \in {<<>>} \cup ProgressStrings(2)

CallEnded(s) == th[s].pc \in {"return", "except_thread"}

(***************************************************************************)
(* C19: a fetch never waits for its events to be consumed. Whenever it is  *)
(* at a statement that emits (the status, a column row, the error of its   *)
(* handler), that step can be taken, whatever the number of events nobody  *)
(* has taken from its queue; and every call, the one given no queue        *)
(* included, comes to its end.                                             *)
(***************************************************************************)
C19_FetchNeverWaits ==
    /\ [](\A s \in Sides :
             /\ th[s].pc = "status" => ENABLED PutStatus(s)
             /\ th[s].pc = "rows" => ENABLED ProcessRow(s)
             /\ th[s].pc = "except" => ENABLED PutError(s))
    /\ \A s \in Sides : <>CallEnded(s)

\* a call without a queue has returned its snapshot, and the other call is
\* about to emit with two events that nobody has taken from its queue
C19_Witness_NoQueueReturned ==
    \E s \in Sides :
        /\ ~th[s].queue
        /\ th[s].pc = "return"
        /\ DOMAIN th[s].tables_structure # {}
        /\ db_queue[s] = <<>>
        /\ th[Other(s)].queue
        /\ th[Other(s)].pc = "rows"
        /\ Len(db_queue[Other(s)]) >= 2

\* both fetches have succeeded on a schema without tables and published it
BothEmptyPublished ==
    \A s \in Sides :
        /\ FetchSucceeded(s)
        /\ th[s].pc = "done"
        /\ catalog[s].columns = <<>>

(***************************************************************************)
(* C20: a snapshot of zero tables counts as a completed fetch: once both   *)
(* fetches have published the snapshot of an empty schema,                 *)
(* compare_schemas comes to return the report whose three fields are       *)
(* empty.                                                                  *)
(***************************************************************************)
C20_EmptySchemasReturnEmptyReport ==
    BothEmptyPublished ~> (Returned /\ retval.val = EmptyReport)

C20_Witness_EmptySchemasCompared ==
    /\ Returned
    /\ \A s \in Sides : db_result[s] = Some(<<>>)
    /\ BothEmptyPublished
    /\ retval.val = EmptyReport

(***************************************************************************)
(* C21: the comparison phase starts only after both fetches are over and   *)
(* read: whenever compare_schemas is at or past the 'comparing' status, or *)
(* an event of the comparison is in the sink, each side's complete event   *)
(* has been taken (its result is set, its thread has ended, its queue is   *)
(* empty), and every status and progress event the side's fetch emits is   *)
(* in the sink.                                                            *)
(***************************************************************************)
C21_ComparisonAfterBothCompletes ==
    (\/ pc \in {"existence", "tables"}
     \/ ~IsNone(differences)
     \/ (~IsNone(queue) /\ CompareEvents # <<>>))
    => \A s \in Sides :
          /\ ~IsNone(db_result[s])
          /\ th[s].pc = "done"
          /\ db_queue[s] = <<>>
          /\ ~IsNone(queue) => Forwarded(s) = EmittedBy(s)

\* the 'comparing' status is in the sink behind the progress events of both sides
C21_Witness_ComparingAfterBothFetches ==
    /\ ~IsNone(queue)
    /\ CompareEvents # <<>>
    /\ \A s \in Sides : Len(Forwarded(s)) >= 2

\* the moves of a fetch from one statement to another in which the four
\* queries follow one another: at "q_..." the fetch is inside that query,
\* which returns (to the rows, to the next query, to the return) or raises
QueryOrder ==
    {<<"idle", "cursor">>, <<"cursor", "status">>, <<"status", "q_columns">>,
     <<"q_columns", "rows">>, <<"q_columns", "q_primary_keys">>,
     <<"rows", "q_primary_keys">>,
     <<"q_primary_keys", "q_indexes">>,
     <<"q_indexes", "q_foreign_keys">>,
     <<"q_foreign_keys", "return">>,
     <<"return", "done">>}
Failing ==
    {<<from, "except">> : from \in {"cursor"} \cup QueryPcs}
       \cup {<<"except", "except_thread">>, <<"except_thread", "done">>}

(***************************************************************************)
(* C22: a fetch is inside its queries in the order columns, primary keys,  *)
(* indexes, foreign keys, in each one only after the one before has        *)
(* returned, and reaches its return only out of the fourth; once a query   *)
(* (or the cursor) of a fetch has failed, the fetch is in no query again   *)
(* and does not return.                                                    *)
(***************************************************************************)
C22_FourQueriesInOrder ==
    [][\A s \in Sides :
          /\ th[s].pc # th'[s].pc => <<th[s].pc, th'[s].pc>> \in QueryOrder \cup Failing
          /\ FetchFailed(s) => th'[s].pc \in {"except", "except_thread", "done"}]_vars

\* one fetch has returned with the rows of all four queries, the other has
\* failed after its column query
C22_Witness_OneReturnedOneFailedLate ==
    \E s \in Sides :
        /\ ~IsNone(queue)
        /\ th[s].pc = "return"
        /\ \E t \in DOMAIN th[s].tables_structure :
              /\ th[s].tables_structure[t].primary_keys # <<>>
              /\ th[s].tables_structure[t].indexes # <<>>
              /\ th[s].tables_structure[t].foreign_keys # <<>>
        /\ FetchFailed(Other(s))
        /\ th[Other(s)].pc = "except"
        /\ Len(db_queue[Other(s)]) + Len(Forwarded(Other(s))) >= 2

\* what the call on side s has put on its queue, the error of its handler apart
Emitted(s) ==
    LET Forwardable(ev) == ev[1] \in {"status", "progress"}
    IN SelectSeq(db_queue[s], Forwardable)
ColumnTables(s) == {catalog[s].columns[i][1] : i \in 1..Len(catalog[s].columns)}

(***************************************************************************)
(* C23: with nobody reading its queue, what a fetch has emitted is nothing *)
(* before its status statement and the one status event when it enters    *)
(* the column query; after that the status event followed by progress      *)
(* events numbered 1, 2, ... with total the number of distinct tables of   *)
(* the column rows, for tables of the column rows in ascending order (the  *)
(* order of the rows), never more than total of them; and from the end of  *)
(* the rows on, through the three later queries up to the return, exactly  *)
(* total of them.                                                          *)
(***************************************************************************)
C23_OneProgressPerTable ==
    \A s \in Sides :
        th[s].queue =>
            LET em == Emitted(s)
                total == Cardinality(ColumnTables(s))
                n == Len(em) - 1
            IN /\ th[s].pc \in {"cursor", "status"} => em = <<>>
               /\ th[s].pc = "q_columns" => Len(em) = 1
               /\ em # <<>> => em[1][1] = "status"
               /\ n <= total
               /\ \A i \in 1..n :
                     /\ em[i + 1][1] = "progress"
                     /\ em[i + 1][2].current = i
                     /\ em[i + 1][2].total = total
                     /\ em[i + 1][2].table \in ColumnTables(s)
                     /\ i < n => em[i + 1][2].table < em[i + 2][2].table
               /\ th[s].pc \in {"q_primary_keys", "q_indexes", "q_foreign_keys", "return"}
                     => n = total

\* a fetch has returned after two progress events for three column rows
C23_Witness_TwoTablesThreeRows ==
    \E s \in Sides :
        /\ th[s].queue
        /\ th[s].pc = "return"
        /\ Len(Emitted(s)) = 3
        /\ Len(catalog[s].columns) > 2

\* the rows of a later query that name table t, as the snapshot keeps them
ItemsFor(s, field, t) ==
    LET rows == catalog[s][field]
        Names(row) == row[1] = t
        named == SelectSeq(rows, Names)
    IN [i \in 1..Len(named) |->
           IF field = "primary_keys" THEN named[i][2] ELSE Tail(named[i])]
LateRows(s) ==
    \E field \in {"primary_keys", "indexes", "foreign_keys"} :
        \E i \in 1..Len(catalog[s][field]) : catalog[s][field][i][1] \notin ColumnTables(s)

(***************************************************************************)
(* C24: from the end of the column rows up to the return, the tables of    *)
(* the snapshot are exactly the table names of the column rows and each    *)
(* has at least one column; the snapshot a fetch returns holds for each    *)
(* of these tables the primary-key, index and foreign-key rows that name   *)
(* it, and nothing for rows that name another table.                       *)
(***************************************************************************)
C24_SnapshotTablesAreColumnTables ==
    \A s \in Sides :
        LET ts == th[s].tables_structure
        IN /\ th[s].pc \in {"q_primary_keys", "q_indexes", "q_foreign_keys", "return"} =>
                 /\ DOMAIN ts = ColumnTables(s)
                 /\ \A t \in DOMAIN ts : ts[t].columns # <<>>
           /\ th[s].pc = "return" =>
                 \A t \in DOMAIN ts :
                    \A field \in {"primary_keys", "indexes", "foreign_keys"} :
                       ts[t][field] = ItemsFor(s, field, t)

\* a fetch has returned from a database whose later queries name a table
\* that has no column row
C24_Witness_LateRowsDropped ==
    \E s \in Sides :
        /\ th[s].pc = "return"
        /\ LateRows(s)
        /\ ~FetchFailed(s)
        /\ Cardinality(DOMAIN th[s].tables_structure) = 2

\* the error event of the handler of get_tables_structure for the failure of side s
LabelledError(s) == <<"error", [label |-> labels[s], cause |-> FailCause(s)]>>
Propagated(s) == FetchFailed(s) /\ th[s].pc \in {"except_thread", "done"}

(***************************************************************************)
(* C25: when a query (or the cursor) of a fetch has failed and the failure *)
(* has left get_tables_structure, the fetch has put an error event with    *)
(* its label and the cause: the event is in the side's queue, ahead of     *)
(* any other error event, or compare_schemas has taken it and raises it.   *)
(* A side whose fetch failed publishes no complete event, has no result,   *)
(* and nothing is left of the snapshot it was building.                    *)
(***************************************************************************)
C25_ErrorEventThenNoSnapshot ==
    \A s \in Sides :
        LET IsError(ev) == ev[1] = "error"
            errors == SelectSeq(db_queue[s], IsError)
        IN /\ Propagated(s) =>
                 \/ errors # <<>> /\ errors[1] = LabelledError(s)
                 \/ exc = Some(ErrorOf(s, LabelledError(s)[2]))
           /\ FetchFailed(s) =>
                 /\ \A i \in 1..Len(db_queue[s]) : db_queue[s][i][1] # "complete"
                 /\ IsNone(db_result[s])
                 /\ th[s].tables_structure = <<>>

\* the fetch of a side failed after its column rows, its thread has ended,
\* and compare_schemas raised that side's error
C25_Witness_FailedAfterRows ==
    \E s \in Sides :
        /\ ~IsNone(queue)
        /\ Propagated(s)
        /\ th[s].pc = "done"
        /\ Len(Forwarded(s)) >= 2
        /\ Raised
        /\ exc.val.side = s

(***************************************************************************)
(* C26: a connection is closed only when the fetch that uses it is over    *)
(* (it has returned or failed), so that no fetch meets a closed            *)
(* connection: no cursor and no query fails because the connection was     *)
(* closed under it.                                                        *)
(***************************************************************************)
C26_ClosedOnlyAfterFetchOver ==
    \A s \in Sides :
        /\ db_conn[s] = "closed" => FetchTerminal(s)
        /\ FetchFailed(s) => FailCause(s) # ConnectionClosed

(***************************************************************************)
(* C27: when the request has ended, with a report or with an error, none   *)
(* of its connections is open.                                             *)
(***************************************************************************)
C27_NoConnectionOpenAfterRequest ==
    Exited => \A s \in Sides : db_conn[s] # "open"

(***************************************************************************)
(* C28: in the displayed text, the line of every column of a table's       *)
(* columns.differences is followed by at least one line that names an      *)
(* attribute and its two values.                                           *)
(***************************************************************************)
C28_EveryListedColumnHasDelta ==
    \A i \in 1..Len(gui.result_text) :
        gui.result_text[i].line = "column" =>
            /\ i < Len(gui.result_text)
            /\ gui.result_text[i + 1].line = "delta"

====
